---- MODULE Spec2Model ----
(***************************************************************************)
(* The session / idle tracking state machine of VirtualManWeek:            *)
(* virtualmanweek.tracking.engine.Tracker together with the two EntryStore *)
(* calls it makes (models.upsert_mode, models.insert_time_entry) and the   *)
(* query of the daily-cap guard.                                           *)
(*                                                                         *)
(* Optional[...] values are sequences of length at most one: None is <<>>  *)
(* and a present value x is <<x>>.  Mode labels are sequences of one       *)
(* character strings, so that str.strip() and str.lower() are computed.    *)
(***************************************************************************)
EXTENDS Integers, Sequences, FiniteSets, TLC

VARIABLES
  now,                     \* the wall clock, int(time.time())
  settings,                \* Settings: idle_timeout_seconds, discard_sub_10s_entries
  active,                  \* Tracker.active: Optional[ActiveSession]
  resume_mode_label,       \* Tracker.resume_mode_label: Optional[str]
  resume_active_start_ts,  \* Tracker.resume_active_start_ts: Optional[int]
  active_recovery_start,   \* Tracker.active_recovery_start: Optional[int]
  active_description,      \* Tracker._active_description: Optional[str]
  active_manual_seconds,   \* Tracker._active_manual_seconds: int
  time_entries,            \* table time_entries, in insertion order
  modes,                   \* table modes: set of rows
  next_sid,                \* history: number of ActiveSession objects created so far, plus one
  steps                    \* history: number of calls and clock advances so far

vars == <<now, settings, active, resume_mode_label, resume_active_start_ts,
          active_recovery_start, active_description, active_manual_seconds,
          time_entries, modes, next_sid, steps>>

----------------------------------------------------------------------------
(* Bounds of the exploration *)

MaxSteps == 6

Deltas == {20, 100}

IdleTimeouts == {5, 50}

----------------------------------------------------------------------------
(* Program constants *)

max_gap_idle_seconds == 21600

split_gap_factor == 3

restore_active_delay_seconds == 15

poll_gap_sleep_min == 30

DayLimit == 86400

DiscardBelow == 10

----------------------------------------------------------------------------
(* Python values *)

None == <<>>

Some(x) == <<x>>

Val(o) == o[1]

Min(a, b) == IF a <= b THEN a ELSE b

Max(a, b) == IF a >= b THEN a ELSE b

IsSpace(c) == c = " "

LowerChar(c) ==
  CASE c = "D" -> "d"
    [] c = "E" -> "e"
    [] c = "I" -> "i"
    [] c = "L" -> "l"
    [] c = "V" -> "v"
    [] OTHER -> c

Lower(s) == [i \in 1..Len(s) |-> LowerChar(s[i])]

RECURSIVE LStrip(_)
LStrip(s) == IF s # <<>> /\ IsSpace(Head(s)) THEN LStrip(Tail(s)) ELSE s

RECURSIVE RStrip(_)
RStrip(s) ==
  IF s # <<>> /\ IsSpace(s[Len(s)]) THEN RStrip(SubSeq(s, 1, Len(s) - 1)) ELSE s

Strip(s) == RStrip(LStrip(s))

\* the literal 'idle' of the comparisons mode_label.lower() == 'idle'
IdleLower == <<"i", "d", "l", "e">>

\* the literal 'Idle' of poll's self.start(mode_label='Idle')
IdleLabel == <<"I", "d", "l", "e">>

\* Python truthiness of an Optional[str]: None and '' are false
Truthy(o) == o # None /\ Val(o) # <<>>

\* datetime.fromtimestamp(ts).strftime("%Y-%m-%d"), as a day number
DateOf(ts) == ts \div 86400

----------------------------------------------------------------------------
(* Inputs *)

Dev == <<"D", "e", "v">>

StartInputs ==
  { [project_id |-> Some(1), mode_label |-> <<" ", "D", "e", "v">>,
     description |-> Some("note"), manual_seconds |-> 60],
    [project_id |-> None, mode_label |-> <<"I", "D", "L", "E", " ">>,
     description |-> None, manual_seconds |-> 0],
    [project_id |-> Some(2), mode_label |-> <<" ">>,
     description |-> None, manual_seconds |-> 0] }

\* 20 is above the idle threshold 5 and below the idle threshold 50
IdleSecsInputs == {None, Some(20)}

\* an entry of today written before this Tracker was constructed
PriorEntry ==
  [sid |-> 0, start_ts |-> 0, end_ts |-> 0, active_seconds |-> 0, idle_seconds |-> 0,
   manual_seconds |-> 86385, project_id |-> None, mode_label |-> Dev,
   description |-> None, source |-> "manual", written_at |-> 0,
   given_manual_seconds |-> 86385]

----------------------------------------------------------------------------
(* The Tracker and the store as one value *)

Cur ==
  [active |-> active,
   resume_mode_label |-> resume_mode_label,
   resume_active_start_ts |-> resume_active_start_ts,
   active_recovery_start |-> active_recovery_start,
   active_description |-> active_description,
   active_manual_seconds |-> active_manual_seconds,
   time_entries |-> time_entries,
   modes |-> modes,
   next_sid |-> next_sid,
   fail_at |-> 0,
   raised |-> FALSE]

\* the Tracker at the entry of a call in which the k-th call of
\* models.insert_time_entry raises (sqlite3 error); k = 0: none raises
Failing(k) == [Cur EXCEPT !.fail_at = k]

\* ActiveSession(project_id, mode_label, start_ts) constructed at clock t.
\* sid (the identity of the object) and pinged (activity_ping has been applied
\* to this object) are history fields.
ActiveSession(sid, project_id, mode_label, start_ts, t) ==
  [sid |-> sid, project_id |-> project_id, mode_label |-> mode_label,
   start_ts |-> start_ts, idle_accum |-> 0, last_activity_ts |-> t,
   last_poll_ts |-> t, pinged |-> FALSE]

----------------------------------------------------------------------------
(* EntryStore *)

\* UpsertMode that looks the mode up by its label as written
UpsertModeCaseSensitive(S, label) ==
  LET norm == Strip(label)
      lower == Lower(norm)
      rows == {m \in S.modes : m.label = norm}
  IN IF rows # {}
       THEN [S EXCEPT !.modes =
               {IF m \in rows THEN [m EXCEPT !.usage_count = @ + 1] ELSE m : m \in S.modes}]
       ELSE [S EXCEPT !.modes =
               @ \cup {[label |-> norm, label_lower |-> lower, usage_count |-> 1]}]

\* models.upsert_mode
UpsertMode(S, label) ==
  LET norm == Strip(label)
      lower == Lower(norm)
      rows == {m \in S.modes : m.label_lower = lower}
  IN IF rows # {}
       THEN [S EXCEPT !.modes =
               {IF m \in rows THEN [m EXCEPT !.usage_count = @ + 1] ELSE m : m \in S.modes}]
       ELSE [S EXCEPT !.modes =
               @ \cup {[label |-> norm, label_lower |-> lower, usage_count |-> 1]}]

\* models.insert_time_entry; fail_at counts down to the call that raises,
\* raised says that an exception is propagating
InsertTimeEntry(S, row) ==
  IF S.fail_at = 1
    THEN [S EXCEPT !.raised = TRUE, !.fail_at = 0]
    ELSE [S EXCEPT !.time_entries = Append(@, row),
                   !.fail_at = IF @ > 1 THEN @ - 1 ELSE @]

\* SELECT COALESCE(SUM(active_seconds),0) + COALESCE(SUM(manual_seconds),0)
\* FROM time_entries WHERE date = today AND LOWER(mode_label) != 'idle'
RECURSIVE TodayWorkSeconds(_, _)
TodayWorkSeconds(rows, today) ==
  IF rows = <<>> THEN 0
  ELSE LET r == Head(rows)
           counted == DateOf(r.start_ts) = today /\ Lower(r.mode_label) # IdleLower
       IN (IF counted THEN r.active_seconds + r.manual_seconds ELSE 0)
          + TodayWorkSeconds(Tail(rows), today)

----------------------------------------------------------------------------
(* Tracker *)

\* Close that leaves the manual credit in place after writing it
CloseKeepsCredit(S, end_ts, manual_seconds, t) ==
  IF S.active = None THEN S
  ELSE
    LET sess == Val(S.active)
        duration == end_ts - sess.start_ts
    IN IF duration < DiscardBelow /\ settings.discard_sub_10s_entries THEN S
       ELSE
         LET idle_seconds == Min(sess.idle_accum, duration)
             active_seconds == Max(0, duration - idle_seconds)
             total_manual == IF manual_seconds # 0 THEN manual_seconds
                             ELSE S.active_manual_seconds
             S1 == InsertTimeEntry(S,
                     [sid |-> sess.sid, start_ts |-> sess.start_ts, end_ts |-> end_ts,
                      active_seconds |-> active_seconds, idle_seconds |-> idle_seconds,
                      manual_seconds |-> total_manual, project_id |-> sess.project_id,
                      mode_label |-> sess.mode_label,
                      description |-> S.active_description,
                      source |-> "auto", written_at |-> t,
                      given_manual_seconds |-> sess.given_manual_seconds])
         IN IF S1.raised THEN S1
            ELSE [S1 EXCEPT !.active_description = None]

\* Tracker._close(end_ts, manual_seconds); t is the clock at the call
Close(S, end_ts, manual_seconds, t) ==
  IF S.active = None THEN S
  ELSE
    LET sess == Val(S.active)
        duration == end_ts - sess.start_ts
    IN IF duration < DiscardBelow /\ settings.discard_sub_10s_entries THEN S
       ELSE
         LET idle_seconds == Min(sess.idle_accum, duration)
             active_seconds == Max(0, duration - idle_seconds)
             total_manual == IF manual_seconds # 0 THEN manual_seconds
                             ELSE S.active_manual_seconds
             S1 == InsertTimeEntry(S,
                     [sid |-> sess.sid, start_ts |-> sess.start_ts, end_ts |-> end_ts,
                      active_seconds |-> active_seconds, idle_seconds |-> idle_seconds,
                      manual_seconds |-> total_manual, project_id |-> sess.project_id,
                      mode_label |-> sess.mode_label,
                      description |-> S.active_description,
                      source |-> "auto", written_at |-> t,
                      given_manual_seconds |-> sess.given_manual_seconds])
         IN IF S1.raised THEN S1
            ELSE [S1 EXCEPT !.active_description = None, !.active_manual_seconds = 0]

\* start that opens the new session without closing the active one
StartSessionNoClose(S, t, project_id, mode_label, description, manual_seconds) ==
  LET norm_mode == Strip(mode_label)
      S2 == UpsertMode(S, norm_mode)
      S3 == [S2 EXCEPT
               !.active = Some(ActiveSession(S2.next_sid, project_id, norm_mode, t, t)
                               @@ [given_description |-> description,
                                   given_manual_seconds |-> manual_seconds]),
               !.next_sid = @ + 1,
               !.active_description = description,
               !.active_manual_seconds = manual_seconds]
  IN IF Lower(norm_mode) # IdleLower
       THEN [S3 EXCEPT !.resume_mode_label = None, !.resume_active_start_ts = None]
       ELSE S3

\* start that clears a pending resume whatever the mode
StartSessionAlwaysClears(S, t, project_id, mode_label, description, manual_seconds) ==
  LET S1 == IF S.active # None THEN Close(S, t, 0, t) ELSE S
      norm_mode == Strip(mode_label)
      S2 == UpsertMode(S1, norm_mode)
  IN [S2 EXCEPT
        !.active = Some(ActiveSession(S2.next_sid, project_id, norm_mode, t, t)
                        @@ [given_description |-> description,
                            given_manual_seconds |-> manual_seconds]),
        !.next_sid = @ + 1,
        !.active_description = description,
        !.active_manual_seconds = manual_seconds,
        !.resume_mode_label = None,
        !.resume_active_start_ts = None]

\* start that stores description and manual_seconds only when they are given
StartSessionKeepsCredit(S, t, project_id, mode_label, description, manual_seconds) ==
  LET S1 == IF S.active # None THEN Close(S, t, 0, t) ELSE S
      norm_mode == Strip(mode_label)
      S2 == UpsertMode(S1, norm_mode)
      S3 == [S2 EXCEPT
               !.active = Some(ActiveSession(S2.next_sid, project_id, norm_mode, t, t)
                               @@ [given_description |-> description,
                                   given_manual_seconds |-> manual_seconds]),
               !.next_sid = @ + 1,
               !.active_description = IF description # None THEN description ELSE @,
               !.active_manual_seconds = IF manual_seconds # 0 THEN manual_seconds ELSE @]
  IN IF Lower(norm_mode) # IdleLower
       THEN [S3 EXCEPT !.resume_mode_label = None, !.resume_active_start_ts = None]
       ELSE S3

\* Tracker.start(project_id, mode_label, description, manual_seconds) at clock t.
\* given_description and given_manual_seconds are history fields: the
\* arguments this session was started with.
StartSession(S, t, project_id, mode_label, description, manual_seconds) ==
  LET S1 == IF S.active # None THEN Close(S, t, 0, t) ELSE S
      norm_mode == Strip(mode_label)
      S2 == UpsertMode(S1, norm_mode)
      S3 == [S2 EXCEPT
               !.active = Some(ActiveSession(S2.next_sid, project_id, norm_mode, t, t)
                               @@ [given_description |-> description,
                                   given_manual_seconds |-> manual_seconds]),
               !.next_sid = @ + 1,
               !.active_description = description,
               !.active_manual_seconds = manual_seconds]
  IN IF S1.raised THEN S1
     ELSE IF Lower(norm_mode) # IdleLower
       THEN [S3 EXCEPT !.resume_mode_label = None, !.resume_active_start_ts = None]
       ELSE S3

\* Tracker.switch
SwitchSession(S, t, project_id, mode_label, description, manual_seconds) ==
  StartSession(S, t, project_id, mode_label, description, manual_seconds)

\* AutoResume that restores the mode as soon as the resume timer is set
AutoResumeNoDelay(S, t) ==
  LET sess == Val(S.active) IN
  IF Lower(sess.mode_label) = IdleLower /\ Truthy(S.resume_mode_label)
    THEN IF S.resume_active_start_ts = None
           THEN [S EXCEPT !.resume_active_start_ts = Some(t)]
           ELSE LET orig == Val(S.resume_mode_label)
                    S1 == SwitchSession(S, t, None, orig, Some("(auto resume)"), 0)
                IN [S1 EXCEPT !.resume_mode_label = None,
                              !.resume_active_start_ts = None]
    ELSE S

\* Tracker.activity_ping, lines 64-74: the auto resume
AutoResume(S, t) ==
  LET sess == Val(S.active) IN
  IF Lower(sess.mode_label) = IdleLower /\ Truthy(S.resume_mode_label)
    THEN IF S.resume_active_start_ts = None
           THEN [S EXCEPT !.resume_active_start_ts = Some(t)]
           ELSE IF t - Val(S.resume_active_start_ts) >= restore_active_delay_seconds
                  THEN LET orig == Val(S.resume_mode_label)
                           S1 == SwitchSession(S, t, None, orig, Some("(auto resume)"), 0)
                       IN IF S1.raised THEN S1
                          ELSE [S1 EXCEPT !.resume_mode_label = None,
                                          !.resume_active_start_ts = None]
                  ELSE S
    ELSE S

\* Tracker.activity_ping, lines 75-93: recovery from attributed idle.
\* sess is the session object bound at line 61; after an auto resume it is the
\* closed idle session, whose mode sends this step to the final else branch.
IdleRecovery(S, sess, t) ==
  LET idle_threshold == settings.idle_timeout_seconds IN
  IF Lower(sess.mode_label) # IdleLower /\ sess.idle_accum > 0
    THEN IF t - sess.last_activity_ts < idle_threshold
           THEN IF S.active_recovery_start = None
                  THEN [S EXCEPT !.active_recovery_start = Some(t)]
                  ELSE IF t - Val(S.active_recovery_start) >= restore_active_delay_seconds
                         THEN [S EXCEPT
                                 !.active = Some([sess EXCEPT !.idle_accum = 0]),
                                 !.active_recovery_start = None]
                         ELSE S
           ELSE [S EXCEPT !.active_recovery_start = None]
    ELSE [S EXCEPT !.active_recovery_start = None]

\* activity_ping that resets the recovery window even without an active session
ActivityPingResetsRecovery(S, t) ==
  IF S.active = None THEN [S EXCEPT !.active_recovery_start = None]
  ELSE
    LET sess == [Val(S.active) EXCEPT !.last_activity_ts = t, !.pinged = TRUE]
        S1 == AutoResume([S EXCEPT !.active = Some(sess)], t)
    IN IdleRecovery(S1, sess, t)

\* ActivityPing that counts as a poll too and stamps last_poll_ts
ActivityPingStampsPoll(S, t) ==
  IF S.active = None THEN S
  ELSE
    LET sess == [Val(S.active) EXCEPT !.last_activity_ts = t, !.last_poll_ts = t,
                                      !.pinged = TRUE]
        S1 == AutoResume([S EXCEPT !.active = Some(sess)], t)
    IN IF S1.raised THEN S1 ELSE IdleRecovery(S1, sess, t)

\* Tracker.activity_ping
ActivityPing(S, t) ==
  IF S.active = None THEN S
  ELSE
    LET sess == [Val(S.active) EXCEPT !.last_activity_ts = t, !.pinged = TRUE]
        S1 == AutoResume([S EXCEPT !.active = Some(sess)], t)
    IN IF S1.raised THEN S1 ELSE IdleRecovery(S1, sess, t)

\* Check24HourLimit that adds the live time of the session only when its mode is
\* not the idle sentinel
Check24HourLimitSkipsIdleLive(S, t) ==
  LET today == DateOf(t)
      stored == TodayWorkSeconds(S.time_entries, today)
      session_active_seconds ==
        IF S.active # None /\ Lower(Val(S.active).mode_label) # IdleLower
          THEN t - Val(S.active).start_ts - Val(S.active).idle_accum
          ELSE 0
      today_work_seconds ==
        IF S.active # None THEN stored + Max(0, session_active_seconds) ELSE stored
  IN IF today_work_seconds >= DayLimit
       THEN [S |-> Close(S, t, 0, t), fired |-> TRUE]
       ELSE [S |-> S, fired |-> FALSE]

\* Tracker._check_24_hour_limit at clock t: the state after it and its return value
Check24HourLimit(S, t) ==
  LET today == DateOf(t)
      stored == TodayWorkSeconds(S.time_entries, today)
      session_active_seconds ==
        IF S.active # None
          THEN t - Val(S.active).start_ts - Val(S.active).idle_accum
          ELSE 0
      today_work_seconds ==
        IF S.active # None THEN stored + Max(0, session_active_seconds) ELSE stored
  IN IF today_work_seconds >= DayLimit
       THEN [S |-> Close(S, t, 0, t), fired |-> TRUE]
       ELSE [S |-> S, fired |-> FALSE]

\* AutoSplit that forgets a pending resume when the split session was idle
AutoSplitForgetful(S, sess, t, gap) ==
  LET idle_threshold == settings.idle_timeout_seconds
      original_mode == IF Lower(sess.mode_label) # IdleLower
                         THEN Some(sess.mode_label) ELSE None
      split_end == Min(t, sess.last_activity_ts + idle_threshold)
      pre_idle == Max(0, split_end - sess.last_activity_ts)
      sess1 == [sess EXCEPT !.idle_accum = Min(pre_idle, split_end - sess.start_ts)]
      S1 == Close([S EXCEPT !.active = Some(sess1)], split_end, 0, t)
      S2 == StartSession(S1, t, None, IdleLabel, Some("(auto after resume)"), 0)
  IN [S2 EXCEPT !.resume_mode_label = original_mode,
                !.resume_active_start_ts = None]

\* AutoSplit that opens the idle session under the project of the session it split
AutoSplitKeepsProject(S, sess, t, gap) ==
  LET idle_threshold == settings.idle_timeout_seconds
      original_mode == IF Lower(sess.mode_label) # IdleLower
                         THEN Some(sess.mode_label) ELSE None
      split_end == Min(t, sess.last_activity_ts + idle_threshold)
      pre_idle == Max(0, split_end - sess.last_activity_ts)
      sess1 == [sess EXCEPT !.idle_accum = Min(pre_idle, split_end - sess.start_ts)]
      S1 == Close([S EXCEPT !.active = Some(sess1)], split_end, 0, t)
      S2 == StartSession(S1, t, sess.project_id, IdleLabel, Some("(auto after resume)"), 0)
  IN IF S1.raised THEN S1
     ELSE IF S2.raised THEN S2
     ELSE IF Truthy(original_mode)
       THEN [S2 EXCEPT !.resume_mode_label = original_mode,
                       !.resume_active_start_ts = None]
       ELSE S2

\* Tracker.poll, lines 156-169: the auto split of a long gap
AutoSplit(S, sess, t, gap) ==
  LET idle_threshold == settings.idle_timeout_seconds
      original_mode == IF Lower(sess.mode_label) # IdleLower
                         THEN Some(sess.mode_label) ELSE None
      split_end == Min(t, sess.last_activity_ts + idle_threshold)
      pre_idle == Max(0, split_end - sess.last_activity_ts)
      sess1 == [sess EXCEPT !.idle_accum = Min(pre_idle, split_end - sess.start_ts)]
      S1 == Close([S EXCEPT !.active = Some(sess1)], split_end, 0, t)
      S2 == StartSession(S1, t, None, IdleLabel, Some("(auto after resume)"), 0)
  IN IF S1.raised THEN S1
     ELSE IF S2.raised THEN S2
     ELSE IF Truthy(original_mode)
       THEN [S2 EXCEPT !.resume_mode_label = original_mode,
                       !.resume_active_start_ts = None]
       ELSE S2

\* Tracker.poll, lines 171-174: the gap attributed as idle time
AttributeGap(S, sess, t, gap) ==
  LET idle_threshold == settings.idle_timeout_seconds
      idle_to_add == Min(gap, max_gap_idle_seconds)
  IN [S EXCEPT !.active = Some(
        [sess EXCEPT !.idle_accum = Min(t - sess.start_ts, sess.idle_accum + idle_to_add),
                     !.last_activity_ts = t - Min(idle_threshold, idle_to_add)])]

\* SplitCondition without the comparison to idle_threshold * split_gap_factor
SplitConditionNoFactor(gap, idle_threshold) ==
  /\ gap >= poll_gap_sleep_min
  /\ gap >= idle_threshold + 5

\* Tracker.poll, line 156: the condition of the auto split
SplitCondition(gap, idle_threshold) ==
  /\ gap >= poll_gap_sleep_min
  /\ gap >= idle_threshold + 5
  /\ gap > idle_threshold * split_gap_factor

\* GapLogic that never splits a session of the idle sentinel and attributes its
\* gap instead
GapLogicKeepsIdle(S, t) ==
  LET sess == Val(S.active)
      idle_threshold == settings.idle_timeout_seconds
      gap == Max(0, t - sess.last_poll_ts)
  IN IF gap >= poll_gap_sleep_min
       THEN IF SplitCondition(gap, idle_threshold) /\ Lower(sess.mode_label) # IdleLower
              THEN AutoSplit(S, sess, t, gap)
              ELSE AttributeGap(S, sess, t, gap)
       ELSE S

\* GapLogic that measures the distance between the two polls rather than clamping
\* a negative gap to 0
GapLogicAbsGap(S, t) ==
  LET sess == Val(S.active)
      idle_threshold == settings.idle_timeout_seconds
      gap == IF t >= sess.last_poll_ts THEN t - sess.last_poll_ts
                                       ELSE sess.last_poll_ts - t
  IN IF gap >= poll_gap_sleep_min
       THEN IF SplitCondition(gap, idle_threshold)
              THEN AutoSplit(S, sess, t, gap)
              ELSE AttributeGap(S, sess, t, gap)
       ELSE S

\* Tracker.poll, lines 145-177: gap measurement, classification, split or attribution
GapLogic(S, t) ==
  LET sess == Val(S.active)
      idle_threshold == settings.idle_timeout_seconds
      gap == Max(0, t - sess.last_poll_ts)
  IN IF gap >= poll_gap_sleep_min
       THEN IF SplitCondition(gap, idle_threshold)
              THEN AutoSplit(S, sess, t, gap)
              ELSE AttributeGap(S, sess, t, gap)
       ELSE S

\* IdleComputation without the cap of the external idle time to the session's duration
IdleComputationUncapped(S, t, idle_secs) ==
  LET idle_threshold == settings.idle_timeout_seconds
      sess == [Val(S.active) EXCEPT !.last_poll_ts = t]
  IN IF idle_secs # None /\ Val(idle_secs) >= idle_threshold
       THEN [S EXCEPT !.active = Some(
               [sess EXCEPT !.idle_accum = Val(idle_secs),
                            !.last_activity_ts = t - Val(idle_secs)])]
       ELSE IF t - sess.last_activity_ts >= idle_threshold
              THEN [S EXCEPT !.active = Some(
                      [sess EXCEPT !.idle_accum =
                         Min(t - sess.start_ts, t - sess.last_activity_ts)])]
              ELSE [S EXCEPT !.active = Some(sess)]

\* IdleComputation that takes the external idle time without moving last_activity_ts
IdleComputationKeepsActivity(S, t, idle_secs) ==
  LET idle_threshold == settings.idle_timeout_seconds
      sess == [Val(S.active) EXCEPT !.last_poll_ts = t]
  IN IF idle_secs # None /\ Val(idle_secs) >= idle_threshold
       THEN [S EXCEPT !.active = Some(
               [sess EXCEPT !.idle_accum = Min(t - sess.start_ts, Val(idle_secs))])]
       ELSE IF t - sess.last_activity_ts >= idle_threshold
              THEN [S EXCEPT !.active = Some(
                      [sess EXCEPT !.idle_accum =
                         Min(t - sess.start_ts, t - sess.last_activity_ts)])]
              ELSE [S EXCEPT !.active = Some(sess)]

\* IdleComputation that leaves last_poll_ts as it was
IdleComputationKeepsPollTs(S, t, idle_secs) ==
  LET idle_threshold == settings.idle_timeout_seconds
      sess == Val(S.active)
  IN IF idle_secs # None /\ Val(idle_secs) >= idle_threshold
       THEN [S EXCEPT !.active = Some(
               [sess EXCEPT !.idle_accum = Min(t - sess.start_ts, Val(idle_secs)),
                            !.last_activity_ts = t - Val(idle_secs)])]
       ELSE IF t - sess.last_activity_ts >= idle_threshold
              THEN [S EXCEPT !.active = Some(
                      [sess EXCEPT !.idle_accum =
                         Min(t - sess.start_ts, t - sess.last_activity_ts)])]
              ELSE S

\* Tracker.poll, lines 178-185: last_poll_ts and the idle computation
IdleComputation(S, t, idle_secs) ==
  LET idle_threshold == settings.idle_timeout_seconds
      sess == [Val(S.active) EXCEPT !.last_poll_ts = t]
  IN IF idle_secs # None /\ Val(idle_secs) >= idle_threshold
       THEN [S EXCEPT !.active = Some(
               [sess EXCEPT !.idle_accum = Min(t - sess.start_ts, Val(idle_secs)),
                            !.last_activity_ts = t - Val(idle_secs)])]
       ELSE IF t - sess.last_activity_ts >= idle_threshold
              THEN [S EXCEPT !.active = Some(
                      [sess EXCEPT !.idle_accum =
                         Min(t - sess.start_ts, t - sess.last_activity_ts)])]
              ELSE [S EXCEPT !.active = Some(sess)]

\* PollOnce without the return after the daily-cap guard fired
PollOnceNoReturn(S, t, idle_secs) ==
  IF S.active = None THEN S
  ELSE IdleComputation(GapLogic(Check24HourLimit(S, t).S, t), t, idle_secs)

\* Tracker.poll(idle_secs) at clock t
PollOnce(S, t, idle_secs) ==
  IF S.active = None THEN S
  ELSE
    LET c == Check24HourLimit(S, t)
        g == GapLogic(S, t)
    IN IF c.fired THEN c.S
       ELSE IF g.raised THEN g
       ELSE IdleComputation(g, t, idle_secs)

\* stop that keeps the session active when its close was discarded
StopSessionKeepsDiscarded(S, t) ==
  IF S.active = None THEN S
  ELSE IF t - Val(S.active).start_ts < DiscardBelow /\ settings.discard_sub_10s_entries
         THEN S
         ELSE [Close(S, t, 0, t) EXCEPT !.active = None]

\* stop that clears the active session although the close raised
StopSessionFinally(S, t) ==
  IF S.active = None THEN S
  ELSE [Close(S, t, 0, t) EXCEPT !.active = None]

\* Tracker.stop
StopSession(S, t) ==
  IF S.active = None THEN S
  ELSE LET c == Close(S, t, 0, t)
       IN IF c.raised THEN c ELSE [c EXCEPT !.active = None]

\* Tracker.flush_all
FlushAllSessions(S, t) ==
  IF S.active # None THEN StopSession(S, t) ELSE S

----------------------------------------------------------------------------
(* The state machine *)

Commit(S) ==
  /\ steps < MaxSteps
  /\ steps' = IF [S EXCEPT !.fail_at = 0, !.raised = FALSE] = Cur
               THEN steps ELSE steps + 1
  /\ active' = S.active
  /\ resume_mode_label' = S.resume_mode_label
  /\ resume_active_start_ts' = S.resume_active_start_ts
  /\ active_recovery_start' = S.active_recovery_start
  /\ active_description' = S.active_description
  /\ active_manual_seconds' = S.active_manual_seconds
  /\ time_entries' = S.time_entries
  /\ modes' = S.modes
  /\ next_sid' = S.next_sid
  /\ UNCHANGED <<now, settings>>

Init ==
  /\ now = 0
  /\ settings \in [idle_timeout_seconds : IdleTimeouts,
                   discard_sub_10s_entries : BOOLEAN]
  /\ active = None
  /\ resume_mode_label = None
  /\ resume_active_start_ts = None
  /\ active_recovery_start = None
  /\ active_description = None
  /\ active_manual_seconds = 0
  /\ time_entries \in {<<>>, <<PriorEntry>>}
  /\ modes = {}
  /\ next_sid = 1
  /\ steps = 0

\* the clock moves on between two calls
Advance ==
  \E d \in Deltas :
    /\ steps < MaxSteps
    /\ now' = now + d
    /\ steps' = steps + 1
    /\ UNCHANGED <<settings, active, resume_mode_label, resume_active_start_ts,
                   active_recovery_start, active_description, active_manual_seconds,
                   time_entries, modes, next_sid>>

StartStep(i) ==
  Commit(StartSession(Cur, now, i.project_id, i.mode_label,
                      i.description, i.manual_seconds))

Start == \E i \in StartInputs : StartStep(i)

SwitchStep(i) ==
  Commit(SwitchSession(Cur, now, i.project_id, i.mode_label,
                       i.description, i.manual_seconds))

Switch == \E i \in StartInputs : SwitchStep(i)

Ping == Commit(ActivityPing(Cur, now))

PollStep(idle_secs) == Commit(PollOnce(Cur, now, idle_secs))

Poll == \E idle_secs \in IdleSecsInputs : PollStep(idle_secs)

Stop == Commit(StopSession(Cur, now))

FlushAll == Commit(FlushAllSessions(Cur, now))

Next == Advance \/ Start \/ Switch \/ Ping \/ Poll \/ Stop \/ FlushAll

Spec == Init /\ [][Next]_vars

\* The same calls on an EntryStore whose insert may raise.  A call inserts at
\* most once, except a poll that splits, which inserts up to twice.
FailAts == {0, 1}

PollFailAts == {0, 1, 2}

InitFail == Init /\ settings.idle_timeout_seconds = 5

StartF ==
  \E i \in StartInputs, k \in FailAts :
    Commit(StartSession(Failing(k), now, i.project_id, i.mode_label,
                        i.description, i.manual_seconds))

SwitchF ==
  \E i \in StartInputs :
    Commit(SwitchSession(Failing(1), now, i.project_id, i.mode_label,
                         i.description, i.manual_seconds))

PingF == \E k \in FailAts : Commit(ActivityPing(Failing(k), now))

PollF == \E k \in PollFailAts : Commit(PollOnce(Failing(k), now, None))

StopF == \E k \in FailAts : Commit(StopSession(Failing(k), now))

FlushAllF == Commit(FlushAllSessions(Failing(1), now))

NextFail == Advance \/ StartF \/ SwitchF \/ PingF \/ PollF \/ StopF \/ FlushAllF

SpecFail == InitFail /\ [][NextFail]_vars

\* The same calls under a clock that may also step backwards between two calls
\* (time.time() follows the wall clock, which the system may set back).
SkewDeltas == {-20, 20}

InitSkew == Init /\ settings.idle_timeout_seconds = 5

Skew ==
  \E d \in SkewDeltas :
    /\ steps < MaxSteps
    /\ now + d >= 0
    /\ now' = now + d
    /\ steps' = steps + 1
    /\ UNCHANGED <<settings, active, resume_mode_label, resume_active_start_ts,
                   active_recovery_start, active_description, active_manual_seconds,
                   time_entries, modes, next_sid>>

NextSkew == Skew \/ Start \/ Switch \/ Ping \/ Poll \/ Stop \/ FlushAll

SpecSkew == InitSkew /\ [][NextSkew]_vars

\* The same calls where every poll is a quiet one: it measures a gap below
\* poll_gap_sleep_min, is given no idle_secs at or above the idle threshold, and
\* comes less than the idle threshold after the last activity.
QuietPoll(idle_secs) ==
  /\ active # None
  /\ Max(0, now - Val(active).last_poll_ts) < poll_gap_sleep_min
  /\ idle_secs # None => Val(idle_secs) < settings.idle_timeout_seconds
  /\ now - Val(active).last_activity_ts < settings.idle_timeout_seconds

PollQuiet == \E idle_secs \in IdleSecsInputs : QuietPoll(idle_secs) /\ PollStep(idle_secs)

NextQuiet == Advance \/ Start \/ Switch \/ Ping \/ PollQuiet \/ Stop \/ FlushAll

SpecQuiet == Init /\ [][NextQuiet]_vars

----------------------------------------------------------------------------
(* Vocabulary of the properties *)

\* the rows this Tracker wrote
AutoEntries == {i \in DOMAIN time_entries : time_entries[i].source = "auto"}

\* the rows a step appends
NewEntries == SubSeq(time_entries', Len(time_entries) + 1, Len(time_entries'))

\* a step that replaces the active session object by another one
SessionReplaced ==
  /\ active # None
  /\ active' # None
  /\ Val(active').sid # Val(active).sid

\* the gap a poll measures in the current state
MeasuredGap == Max(0, now - Val(active).last_poll_ts)

\* the daily-cap guard of a poll fires in the current state
CapFires ==
  /\ active # None
  /\ TodayWorkSeconds(time_entries, DateOf(now))
       + Max(0, now - Val(active).start_ts - Val(active).idle_accum) >= 86400

\* the active session was opened by poll's auto split
OpenedBySplit == active # None /\ active_description = Some("(auto after resume)")

\* the active session was opened by activity_ping's auto resume
OpenedByResume == active # None /\ active_description = Some("(auto resume)")

----------------------------------------------------------------------------
(* C1 -- no session is persisted as two entries: the rows written by the      *)
(* Tracker carry pairwise different session identities, whatever closed the   *)
(* session (start, stop, the auto split of poll, the daily-cap guard).        *)

C1_OncePerSession ==
  \A i, j \in AutoEntries :
    time_entries[i].sid = time_entries[j].sid => i = j

(* C3 -- every row written by the Tracker has active_seconds >= 0,            *)
(* idle_seconds >= 0 and active_seconds + idle_seconds = end_ts - start_ts.   *)

C3_EntryAccounting ==
  \A i \in AutoEntries :
    LET e == time_entries[i] IN
      /\ e.active_seconds >= 0
      /\ e.idle_seconds >= 0
      /\ e.active_seconds + e.idle_seconds = e.end_ts - e.start_ts

(* C4 -- while a session is active, 0 <= idle_accum <= now - start_ts.        *)

C4_IdleAccumBounded ==
  active # None =>
    /\ 0 <= Val(active).idle_accum
    /\ Val(active).idle_accum <= now - Val(active).start_ts

\* idle time has been attributed to a session that has run for a while
C4_Witness ==
  /\ active # None
  /\ Val(active).idle_accum > 0
  /\ Val(active).idle_accum = now - Val(active).start_ts
  /\ Val(active).last_poll_ts = now

(* C2 -- a poll that auto-splits persists the pre-split session as a single   *)
(* row ending at split_end = min(now, last_activity_ts + idle_threshold),     *)
(* with idle_seconds the time from the last activity to split_end capped at   *)
(* the row's duration; no row of that session reaches beyond split_end; the   *)
(* session active afterwards is a new idle-sentinel session.                  *)

C2_SplitEntry ==
  [][\A idle_secs \in IdleSecsInputs :
       (PollStep(idle_secs) /\ SessionReplaced) =>
         LET pre == Val(active)
             split_end == Min(now, pre.last_activity_ts + settings.idle_timeout_seconds)
             duration == split_end - pre.start_ts
             mine == {k \in DOMAIN NewEntries : NewEntries[k].sid = pre.sid}
         IN /\ Cardinality(mine) <= 1
            /\ ~(duration < 10 /\ settings.discard_sub_10s_entries)
                 => Cardinality(mine) = 1
            /\ \A k \in mine :
                 /\ NewEntries[k].end_ts = split_end
                 /\ NewEntries[k].idle_seconds =
                      Min(Max(0, split_end - pre.last_activity_ts), duration)
            /\ Lower(Val(active').mode_label) = IdleLower
            /\ Val(active').start_ts = now
     ]_vars

(* C5 -- a poll in which the daily-cap guard fires leaves the Tracker with    *)
(* no active session.                                                         *)

C5_CapClosesSession ==
  [][\A idle_secs \in IdleSecsInputs :
       (PollStep(idle_secs) /\ CapFires) => active' = None
     ]_vars

(* C6 -- a poll in which the daily-cap guard fires leaves last_poll_ts,       *)
(* last_activity_ts and idle_accum of the session and resume_mode_label and   *)
(* resume_active_start_ts as they were.                                       *)

C6_CapSkipsGapLogic ==
  [][\A idle_secs \in IdleSecsInputs :
       (PollStep(idle_secs) /\ CapFires) =>
         /\ active' # None =>
              /\ Val(active').sid = Val(active).sid
              /\ Val(active').last_poll_ts = Val(active).last_poll_ts
              /\ Val(active').last_activity_ts = Val(active).last_activity_ts
              /\ Val(active').idle_accum = Val(active).idle_accum
         /\ resume_mode_label' = resume_mode_label
         /\ resume_active_start_ts' = resume_active_start_ts
     ]_vars

\* the guard has fired: a row of the session that is still active was written,
\* at a moment when a poll would have measured a gap
C6_Witness ==
  /\ active # None
  /\ \E i \in AutoEntries :
       /\ time_entries[i].sid = Val(active).sid
       /\ time_entries[i].written_at > Val(active).last_poll_ts

(* C7 -- poll replaces the active session (auto split) only if the measured   *)
(* gap is >= poll_gap_sleep_min, >= idle_threshold + 5 and                    *)
(* > idle_threshold * split_gap_factor.                                       *)

C7_SplitOnlyOnLongGap ==
  [][\A idle_secs \in IdleSecsInputs :
       (PollStep(idle_secs) /\ SessionReplaced) =>
         /\ MeasuredGap >= 30
         /\ MeasuredGap >= settings.idle_timeout_seconds + 5
         /\ MeasuredGap > settings.idle_timeout_seconds * 3
     ]_vars

\* an auto split has happened
C7_Witness ==
  /\ OpenedBySplit
  /\ Val(active).start_ts = now
  /\ Val(active).last_poll_ts = now

(* C8 -- (as claimed) immediately after an auto split, resume_mode_label is   *)
(* set if and only if the mode of the pre-split session was not the idle      *)
(* sentinel.  Stated for the sessions the data model allows, those with a     *)
(* non-empty label.                                                           *)

C8_ResumeSetIffNotIdle ==
  [][\A idle_secs \in IdleSecsInputs :
       (PollStep(idle_secs) /\ SessionReplaced /\ Val(active).mode_label # <<>>) =>
         (resume_mode_label' # None <=> Lower(Val(active).mode_label) # IdleLower)
     ]_vars

(* C8 -- (amended) an auto split of a session whose mode is a non-empty label *)
(* other than the idle sentinel sets resume_mode_label to that mode and       *)
(* unsets resume_active_start_ts; an auto split of any other session leaves   *)
(* resume_mode_label and resume_active_start_ts as they were before the poll. *)

C8_ResumeAfterSplit ==
  [][\A idle_secs \in IdleSecsInputs :
       (PollStep(idle_secs) /\ SessionReplaced) =>
         LET pre == Val(active) IN
         IF Lower(pre.mode_label) # IdleLower /\ pre.mode_label # <<>>
           THEN /\ resume_mode_label' = Some(pre.mode_label)
                /\ resume_active_start_ts' = None
           ELSE /\ resume_mode_label' = resume_mode_label
                /\ resume_active_start_ts' = resume_active_start_ts
     ]_vars

\* an idle-sentinel session has been split while a resume was pending
C8_Witness ==
  /\ OpenedBySplit
  /\ Val(active).start_ts = now
  /\ Truthy(resume_mode_label)
  /\ \E i \in AutoEntries :
       /\ time_entries[i].sid = Val(active).sid - 1
       /\ time_entries[i].description = Some("(auto after resume)")
       /\ Lower(time_entries[i].mode_label) = IdleLower

(* C9 -- an activity_ping auto-resumes only after at least                    *)
(* restore_active_delay_seconds of continuous activity: the session has been  *)
(* pinged before (never on the first ping after the auto split), the resume   *)
(* timer has run for the delay, and the previous activity is less than the    *)
(* idle threshold ago (no period without activity in between).                *)

C9_ResumeNeedsSustainedActivity ==
  [][(Ping /\ SessionReplaced) =>
       /\ Val(active).pinged
       /\ resume_active_start_ts # None
       /\ now - Val(resume_active_start_ts) >= 15
       /\ now - Val(active).last_activity_ts < settings.idle_timeout_seconds
     ]_vars

(* C10 -- in an idle-sentinel session with a resume pending and the resume    *)
(* timer started at t0, a ping at now < t0 + restore_active_delay_seconds     *)
(* keeps the session and the resume state, and a ping at                      *)
(* now >= t0 + restore_active_delay_seconds closes the idle session at now    *)
(* (one row ending at now, or none when it is discarded as shorter than 10 s),*)
(* opens a session in the saved mode with description '(auto resume)' and     *)
(* leaves resume_mode_label and resume_active_start_ts unset.                 *)

----------------------------------------------------------------------------
(* C11 -- a close of a session lasting less than 10 seconds writes no entry    *)
(* exactly when discard_sub_10s_entries is on; when it is off the entry is     *)
(* written with 0 <= active_seconds <= duration; a session of 10 seconds or    *)
(* more is always written.  Stated on every entry a step writes and on the     *)
(* close done by stop and by start.                                            *)

C11_DiscardPolicy ==
  [][ /\ \A k \in DOMAIN NewEntries :
           LET e == NewEntries[k]
               duration == e.end_ts - e.start_ts
           IN /\ settings.discard_sub_10s_entries => duration >= DiscardBelow
              /\ duration < DiscardBelow =>
                    /\ 0 <= e.active_seconds
                    /\ e.active_seconds <= duration
      /\ (active # None /\ (Stop \/ Start)) =>
           LET duration == now - Val(active).start_ts
           IN IF duration < DiscardBelow /\ settings.discard_sub_10s_entries
                THEN NewEntries = <<>>
                ELSE /\ Len(NewEntries) = 1
                     /\ NewEntries[1].sid = Val(active).sid
                     /\ NewEntries[1].end_ts - NewEntries[1].start_ts = duration
    ]_vars

----------------------------------------------------------------------------
(* C12 -- the description and manual_seconds given to a session that is        *)
(* discarded as shorter than 10 seconds are dropped with it: every entry a     *)
(* step writes belongs to the session that was active before the step and      *)
(* carries that session's own description and manual_seconds or none, and the  *)
(* credit the Tracker holds for an active session is that session's own.       *)

C12_DiscardDropsCredit ==
  [][ /\ \A k \in DOMAIN NewEntries :
           /\ active # None
           /\ NewEntries[k].sid = Val(active).sid
           /\ NewEntries[k].manual_seconds \in {0, Val(active).given_manual_seconds}
           /\ NewEntries[k].description \in {None, Val(active).given_description}
      /\ active' # None =>
           /\ active_manual_seconds' \in {0, Val(active').given_manual_seconds}
           /\ active_description' \in {None, Val(active').given_description}
    ]_vars

\* the first session, started in Dev with a description and manual seconds, was
\* discarded, and the session started after it was written without them
C12_Witness ==
  /\ settings.discard_sub_10s_entries
  /\ next_sid = 3
  /\ \E m \in modes : m.label = Dev
  /\ \A i \in AutoEntries : time_entries[i].sid # 1
  /\ \E i \in AutoEntries :
       /\ time_entries[i].sid = 2
       /\ time_entries[i].mode_label # Dev
       /\ time_entries[i].manual_seconds = 0
       /\ time_entries[i].description = None

----------------------------------------------------------------------------
(* C13 -- start or switch with a label that is empty after trimming is         *)
(* rejected before anything changes: the previous session is not closed, no    *)
(* entry is written, no mode is registered and no session is opened.           *)

C13_BlankLabelRejected ==
  [][ \A i \in StartInputs :
        (Strip(i.mode_label) = <<>> /\ (StartStep(i) \/ SwitchStep(i))) =>
          UNCHANGED <<active, resume_mode_label, resume_active_start_ts,
                      active_recovery_start, active_description,
                      active_manual_seconds, time_entries, modes, next_sid>>
    ]_vars

----------------------------------------------------------------------------
(* C15 -- with no active session, activity_ping, poll, stop and flush_all      *)
(* change nothing in the Tracker and write no entry.                           *)

C15_NoOpsWithoutSession ==
  [][ (active = None /\ (Ping \/ Poll \/ Stop \/ FlushAll)) =>
        UNCHANGED <<active, resume_mode_label, resume_active_start_ts,
                    active_recovery_start, active_description,
                    active_manual_seconds, time_entries, modes, next_sid>>
    ]_vars

\* no session is active, after one was stopped while a recovery window was open
C15_Witness ==
  /\ active = None
  /\ next_sid > 1
  /\ active_recovery_start # None

----------------------------------------------------------------------------
(* C16 -- stop and flush_all leave the Tracker without an active session,      *)
(* whether the closed session was written or discarded, and writing at most    *)
(* one entry; called again, they write nothing and change nothing.  Stated of  *)
(* the outcome of the call in every reachable state.                           *)

C16_StopLeavesNoSession ==
  \A S1 \in {StopSession(Cur, now), FlushAllSessions(Cur, now)} :
    /\ S1.active = None
    /\ ~S1.raised
    /\ Len(S1.time_entries) <= Len(time_entries) + 1
    /\ active = None => S1 = Cur
    /\ StopSession(S1, now) = S1
    /\ FlushAllSessions(S1, now) = S1

\* the only session there has been was stopped and discarded
C16_Witness ==
  /\ settings.discard_sub_10s_entries
  /\ active = None
  /\ next_sid = 2
  /\ AutoEntries = {}

----------------------------------------------------------------------------
(* C17 -- start or switch while a session is active closes that session with   *)
(* end_ts = now and opens the new one with start_ts = now: the closed session  *)
(* is written as one entry from its start_ts to now, or discarded when shorter *)
(* than 10 seconds with discard on, and the new session starts where it ends.  *)
(* Stated of the outcome of the call in every reachable state.                 *)

C17_StartClosesThenOpens ==
  active # None =>
    \A i \in StartInputs :
      \A S \in {StartSession(Cur, now, i.project_id, i.mode_label,
                              i.description, i.manual_seconds),
                 SwitchSession(Cur, now, i.project_id, i.mode_label,
                               i.description, i.manual_seconds)} :
        LET pre == Val(active)
            written == SubSeq(S.time_entries, Len(time_entries) + 1,
                              Len(S.time_entries))
            discarded == /\ now - pre.start_ts < DiscardBelow
                         /\ settings.discard_sub_10s_entries
        IN /\ S.active # None
           /\ Val(S.active).sid = next_sid
           /\ Val(S.active).start_ts = now
           /\ SubSeq(S.time_entries, 1, Len(time_entries)) = time_entries
           /\ IF discarded THEN written = <<>>
              ELSE /\ Len(written) = 1
                   /\ written[1].sid = pre.sid
                   /\ written[1].start_ts = pre.start_ts
                   /\ written[1].end_ts = now
                   /\ written[1].end_ts = Val(S.active).start_ts

\* a session opened by start or switch begins where the written entry of the
\* session before it ends
C17_Witness ==
  /\ active # None
  /\ Val(active).given_description \notin {Some("(auto after resume)"), Some("(auto resume)")}
  /\ \E i \in AutoEntries :
       /\ time_entries[i].sid = Val(active).sid - 1
       /\ time_entries[i].start_ts < time_entries[i].end_ts
       /\ time_entries[i].end_ts = Val(active).start_ts

----------------------------------------------------------------------------
(* C18 -- after start(project_id, mode_label, description, manual_seconds)     *)
(* the active session has the given project_id, the trimmed label, start_ts =  *)
(* now, idle_accum = 0 and last_activity_ts = last_poll_ts = now; and every    *)
(* entry written for a session carries the description and manual_seconds      *)
(* that session was started with.                                              *)

C18_StartFieldsAndCredit ==
  [][ /\ \A i \in StartInputs :
           (StartStep(i) \/ SwitchStep(i)) =>
             /\ active' # None
             /\ Val(active').project_id = i.project_id
             /\ Val(active').mode_label = Strip(i.mode_label)
             /\ Val(active').start_ts = now
             /\ Val(active').idle_accum = 0
             /\ Val(active').last_activity_ts = now
             /\ Val(active').last_poll_ts = now
      /\ \A k \in DOMAIN NewEntries :
           /\ active # None
           /\ NewEntries[k].sid = Val(active).sid
           /\ NewEntries[k].description = Val(active).given_description
           /\ NewEntries[k].manual_seconds = Val(active).given_manual_seconds
    ]_vars

----------------------------------------------------------------------------
(* C19 -- start or switch into a mode whose trimmed label is not the idle      *)
(* sentinel, compared without case, clears resume_mode_label and               *)
(* resume_active_start_ts; start or switch into the idle sentinel leaves both  *)
(* as they were.                                                               *)

C19_StartClearsResume ==
  [][ \A i \in StartInputs :
        \/ IF Lower(Strip(i.mode_label)) # IdleLower
             THEN /\ resume_mode_label' = None
                  /\ resume_active_start_ts' = None
             ELSE /\ resume_mode_label' = resume_mode_label
                  /\ resume_active_start_ts' = resume_active_start_ts
        \/ ~(StartStep(i) \/ SwitchStep(i))
    ]_vars

\* a session started by the user in 'IDLE' is active while the resume label and
\* the resume timer set before it are still pending
C19_Witness ==
  /\ active # None
  /\ Val(active).mode_label = <<"I", "D", "L", "E">>
  /\ Val(active).start_ts > 0
  /\ resume_mode_label = Some(Dev)
  /\ resume_active_start_ts # None
  /\ Val(resume_active_start_ts) <= Val(active).start_ts
  /\ ~Val(active).pinged

----------------------------------------------------------------------------
(* C20 -- at the end of a poll in which the daily cap did not fire: when       *)
(* idle_secs is given and at least the idle threshold, idle_accum is           *)
(* min(now - start_ts, idle_secs) and last_activity_ts is now - idle_secs,     *)
(* whatever the gap logic did before; otherwise idle_accum becomes             *)
(* min(now - start_ts, now - last_activity_ts) exactly when                    *)
(* now - last_activity_ts is at least the threshold, and is left as the gap    *)
(* logic left it when not.  The session is the one active after the gap logic. *)

C20_IdleComputation ==
  [][ \A idle_secs \in IdleSecsInputs :
        (active # None /\ ~CapFires /\ PollStep(idle_secs)) =>
          LET mid == Val(GapLogic(Cur, now).active)
              idle_threshold == settings.idle_timeout_seconds
          IN /\ active' # None
             /\ Val(active').sid = mid.sid
             /\ Val(active').start_ts = mid.start_ts
             /\ IF idle_secs # None /\ Val(idle_secs) >= idle_threshold
                  THEN /\ Val(active').idle_accum =
                            Min(now - mid.start_ts, Val(idle_secs))
                       /\ Val(active').last_activity_ts = now - Val(idle_secs)
                  ELSE /\ Val(active').last_activity_ts = mid.last_activity_ts
                       /\ IF now - mid.last_activity_ts >= idle_threshold
                            THEN Val(active').idle_accum =
                                   Min(now - mid.start_ts, now - mid.last_activity_ts)
                            ELSE Val(active').idle_accum = mid.idle_accum
    ]_vars

\* a poll with an external idle time of 20 seconds has just set idle_accum and
\* last_activity_ts of a session that had run for a while
C20_Witness ==
  /\ active # None
  /\ Val(active).start_ts < now
  /\ Val(active).last_poll_ts = now
  /\ settings.idle_timeout_seconds <= 20
  /\ Val(active).last_activity_ts = now - 20
  /\ Val(active).idle_accum = Min(now - Val(active).start_ts, 20)

----------------------------------------------------------------------------
(* C14 -- when the insert of the entry raises while a session is being closed  *)
(* (by start, switch, stop, flush_all, the cap guard or the auto split, and by *)
(* the auto resume of activity_ping), the exception reaches the caller and the *)
(* session is not lost: the same session is still active after the call and    *)
(* no new session has been opened.  Stated of the outcome of every call in     *)
(* every state reachable with failing inserts.                                 *)

\* S is the outcome of a call made in the current state: if the call raised,
\* the session that was active is still the active one and no other was opened
KeepsSession(S) ==
  S.raised =>
    /\ S.active # None
    /\ Val(S.active).sid = Val(active).sid
    /\ Val(S.active).start_ts = Val(active).start_ts
    /\ Val(S.active).mode_label = Val(active).mode_label
    /\ S.next_sid = next_sid
    /\ S.modes = modes

C14_FailedInsertKeepsSession ==
  active # None =>
    \A k \in PollFailAts \ {0} :
      /\ \A i \in StartInputs :
           /\ KeepsSession(StartSession(Failing(k), now, i.project_id, i.mode_label,
                                        i.description, i.manual_seconds))
           /\ KeepsSession(SwitchSession(Failing(k), now, i.project_id, i.mode_label,
                                         i.description, i.manual_seconds))
      /\ KeepsSession(PollOnce(Failing(k), now, None))
      /\ KeepsSession(ActivityPing(Failing(k), now))
      /\ KeepsSession(StopSession(Failing(k), now))
      /\ KeepsSession(FlushAllSessions(Failing(k), now))

\* the second insert of an auto split raised: the split session has its entry
\* up to the split point and is still the active session
C14_Witness ==
  /\ active # None
  /\ \E i \in AutoEntries :
       /\ time_entries[i].sid = Val(active).sid
       /\ time_entries[i].end_ts < time_entries[i].written_at
       /\ Val(active).last_poll_ts < time_entries[i].written_at

----------------------------------------------------------------------------
(* C21 -- a poll (the daily cap not fired) that measures a gap of at least     *)
(* poll_gap_sleep_min and does not split keeps the session open (no entry,     *)
(* same session, start_ts unchanged) and attributes the gap as idle time.      *)

\* the poll of the current state measures a gap that is attributed, not split
GapIsAttributed ==
  /\ active # None
  /\ MeasuredGap >= 30
  /\ ~(/\ MeasuredGap >= settings.idle_timeout_seconds + 5
       /\ MeasuredGap > settings.idle_timeout_seconds * 3)
  /\ ~CapFires

\* idle_accum after the attribution of the measured gap
AttributedIdle ==
  Min(now - Val(active).start_ts, Val(active).idle_accum + Min(MeasuredGap, 21600))

C21_GapAttributed ==
  [][ \A idle_secs \in IdleSecsInputs :
        (GapIsAttributed /\ PollStep(idle_secs)) =>
          /\ NewEntries = <<>>
          /\ active' # None
          /\ Val(active').sid = Val(active).sid
          /\ Val(active').start_ts = Val(active).start_ts
          /\ Val(active').idle_accum = AttributedIdle
    ]_vars

----------------------------------------------------------------------------
(* C22 -- in a non-idle session with idle_accum > 0, activity_ping zeroes      *)
(* idle_accum only after the recovery timer has run for                        *)
(* restore_active_delay_seconds of continuous activity within the same         *)
(* session: the session has been pinged before, the timer was started in this  *)
(* session and has run for the delay, and the previous activity is less than   *)
(* the idle threshold ago; a step that changes the session leaves the timer    *)
(* unset.                                                                      *)

C22_RecoveryNeedsSustainedActivity ==
  [][ /\ (/\ active # None
          /\ active' # None
          /\ Val(active').sid = Val(active).sid
          /\ Val(active).idle_accum > 0
          /\ Val(active').idle_accum = 0
          /\ Ping) =>
            /\ Lower(Val(active).mode_label) # IdleLower
            /\ Val(active).pinged
            /\ active_recovery_start # None
            /\ Val(active_recovery_start) >= Val(active).start_ts
            /\ now - Val(active_recovery_start) >= 15
            /\ now - Val(active).last_activity_ts < settings.idle_timeout_seconds
      /\ SessionReplaced => active_recovery_start' = None
    ]_vars

----------------------------------------------------------------------------
(* C23 -- a poll at a time earlier than last_poll_ts treats the gap as 0: it   *)
(* raises nothing, classifies, attributes and splits nothing, keeps the same   *)
(* session active and sets last_poll_ts = now.                                 *)

\* poll(idle_secs) on a store whose k-th insert would raise does what the claim
\* says: nothing raised, no row, the same session, only the idle computation of
\* lines 178-185 applied
BackwardPollIsQuiet(k, idle_secs) ==
  LET R == PollOnce(Failing(k), now, idle_secs)
      sess == Val(active)
      th == settings.idle_timeout_seconds
  IN /\ ~R.raised
     /\ R.time_entries = time_entries
     /\ R.resume_mode_label = resume_mode_label
     /\ R.resume_active_start_ts = resume_active_start_ts
     /\ R.active # None
     /\ Val(R.active).sid = sess.sid
     /\ Val(R.active).start_ts = sess.start_ts
     /\ Val(R.active).mode_label = sess.mode_label
     /\ Val(R.active).last_poll_ts = now
     /\ Val(R.active).idle_accum =
          IF idle_secs # None /\ Val(idle_secs) >= th
            THEN Min(now - sess.start_ts, Val(idle_secs))
            ELSE IF now - sess.last_activity_ts >= th
                   THEN Min(now - sess.start_ts, now - sess.last_activity_ts)
                   ELSE sess.idle_accum

C23_BackwardPoll ==
  \A idle_secs \in IdleSecsInputs, k \in PollFailAts :
    (active # None /\ now < Val(active).last_poll_ts) =>
      BackwardPollIsQuiet(k, idle_secs)

(* C23, amended -- the same for a poll in which the daily-cap guard does not   *)
(* fire.                                                                       *)

C23_BackwardPollBelowCap ==
  \A idle_secs \in IdleSecsInputs, k \in PollFailAts :
    (active # None /\ now < Val(active).last_poll_ts /\ ~CapFires) =>
      BackwardPollIsQuiet(k, idle_secs)

\* a session started at a later clock reading has been polled at the current one
C23_Witness ==
  /\ active # None
  /\ Val(active).start_ts > now
  /\ Val(active).last_poll_ts = now
  /\ time_entries = <<>>

----------------------------------------------------------------------------
(* C24 -- under any clock, backward steps between the calls included, all      *)
(* durations are clamped: the active session's idle_accum is never negative,   *)
(* and every row written by the Tracker has active_seconds >= 0,               *)
(* idle_seconds >= 0 and neither above max(0, end_ts - start_ts).              *)

C24_DurationsClamped ==
  /\ active # None => Val(active).idle_accum >= 0
  /\ \A i \in AutoEntries :
       LET e == time_entries[i] IN
         /\ e.active_seconds >= 0
         /\ e.idle_seconds >= 0
         /\ e.active_seconds <= Max(0, e.end_ts - e.start_ts)
         /\ e.idle_seconds <= Max(0, e.end_ts - e.start_ts)

----------------------------------------------------------------------------
(* C25 -- in a session whose polls were all quiet ones (gap below              *)
(* poll_gap_sleep_min, no idle_secs at or above the idle threshold, last       *)
(* activity less than the idle threshold ago), each poll leaves idle_accum and *)
(* last_activity_ts unchanged, so idle_accum is 0 and a stop at time T with    *)
(* T - start_ts >= 10 leaves exactly one entry of the session, with            *)
(* idle_seconds = 0 and active_seconds = T - start_ts.                         *)

\* the rows of S that the Tracker wrote for the session sid
EntriesOf(S, sid) ==
  {i \in DOMAIN S.time_entries :
     S.time_entries[i].source = "auto" /\ S.time_entries[i].sid = sid}

C25_QuietSession ==
  active # None =>
    LET sess == Val(active)
        R == StopSession(Cur, now)
    IN /\ sess.idle_accum = 0
       /\ \A idle_secs \in IdleSecsInputs :
            QuietPoll(idle_secs) =>
              LET P == PollOnce(Cur, now, idle_secs) IN
                /\ P.active # None
                /\ Val(P.active).idle_accum = sess.idle_accum
                /\ Val(P.active).last_activity_ts = sess.last_activity_ts
       /\ now - sess.start_ts >= 10 =>
            /\ Cardinality(EntriesOf(R, sess.sid)) = 1
            /\ \A i \in EntriesOf(R, sess.sid) :
                 /\ R.time_entries[i].idle_seconds = 0
                 /\ R.time_entries[i].active_seconds = now - sess.start_ts
                 /\ R.time_entries[i].end_ts = now

----------------------------------------------------------------------------
(* C26 -- with a session active, the daily-cap guard fires in a poll if and    *)
(* only if (the sum of active_seconds + manual_seconds over today's entries    *)
(* whose mode is not the idle sentinel) + max(0, now - start_ts - idle_accum)  *)
(* of the live session is at least 86400, whatever the mode of the live        *)
(* session; a poll in which it fires does nothing but the guard's close.       *)

\* active_seconds + manual_seconds of the first n entries that are of today and
\* not of the idle sentinel
RECURSIVE WorkOfToday(_)
WorkOfToday(n) ==
  IF n = 0 THEN 0
  ELSE WorkOfToday(n - 1)
       + (IF /\ time_entries[n].start_ts \div 86400 = now \div 86400
             /\ Lower(time_entries[n].mode_label) # <<"i", "d", "l", "e">>
            THEN time_entries[n].active_seconds + time_entries[n].manual_seconds
            ELSE 0)

C26_CapFiresIffReached ==
  active # None =>
    LET live == Max(0, now - Val(active).start_ts - Val(active).idle_accum)
        reached == WorkOfToday(Len(time_entries)) + live >= 86400
    IN /\ Check24HourLimit(Cur, now).fired <=> reached
       /\ \A idle_secs \in IdleSecsInputs :
            /\ reached => PollOnce(Cur, now, idle_secs) = Close(Cur, now, 0, now)
            /\ ~reached => Val(PollOnce(Cur, now, idle_secs).active).last_poll_ts = now

\* the guard has just fired on a live idle-sentinel session and persisted it
C26_Witness ==
  /\ active # None
  /\ Lower(Val(active).mode_label) = IdleLower
  /\ now > Val(active).start_ts
  /\ WorkOfToday(Len(time_entries)) < 86400
  /\ \E i \in AutoEntries :
       /\ time_entries[i].sid = Val(active).sid
       /\ time_entries[i].written_at = now

----------------------------------------------------------------------------
(* C27 -- idle_accum of an open session never decreases across polls: a poll   *)
(* (gap attribution, external idle override, idle fallback) that keeps the     *)
(* session leaves its idle_accum at least as large as it was.                  *)

C27_IdleAccumMonotone ==
  \A idle_secs \in IdleSecsInputs :
    LET P == PollOnce(Cur, now, idle_secs) IN
      (/\ active # None
       /\ P.active # None
       /\ Val(P.active).sid = Val(active).sid) =>
         Val(P.active).idle_accum >= Val(active).idle_accum

----------------------------------------------------------------------------
(* C28 -- a poll in which the daily-cap guard does not fire and that measures  *)
(* a gap with gap >= poll_gap_sleep_min, gap >= idle_threshold + 5 and         *)
(* gap > idle_threshold * split_gap_factor always splits: after it the active  *)
(* session is a new session of the idle sentinel with start_ts = now and       *)
(* last_poll_ts = now, and with idle_accum = 0 when idle_secs is absent.       *)

C28_LongGapSplits ==
  \A idle_secs \in IdleSecsInputs :
    (/\ active # None
     /\ ~CapFires
     /\ MeasuredGap >= 30
     /\ MeasuredGap >= settings.idle_timeout_seconds + 5
     /\ MeasuredGap > settings.idle_timeout_seconds * 3) =>
       LET P == PollOnce(Cur, now, idle_secs) IN
         /\ P.active # None
         /\ Val(P.active).sid # Val(active).sid
         /\ Lower(Val(P.active).mode_label) = <<"i", "d", "l", "e">>
         /\ Val(P.active).start_ts = now
         /\ Val(P.active).last_poll_ts = now
         /\ idle_secs = None => Val(P.active).idle_accum = 0

\* a session of the idle sentinel has been split by a poll: the session opened by
\* the split follows it with no resume pending
C28_Witness ==
  /\ OpenedBySplit
  /\ Val(active).start_ts = now
  /\ Val(active).last_poll_ts = now
  /\ Val(active).idle_accum = 0
  /\ resume_mode_label = None
  /\ \E i \in AutoEntries :
       /\ Lower(time_entries[i].mode_label) = IdleLower
       /\ time_entries[i].written_at = now

----------------------------------------------------------------------------
(* C29 -- after every poll with an active session in which the daily-cap       *)
(* guard does not fire, the active session (possibly the one the poll opened)  *)
(* has last_poll_ts = now, so that the next poll, at a later time t, measures  *)
(* the gap t - now.                                                            *)

C29_PollStamps ==
  \A idle_secs \in IdleSecsInputs :
    (active # None /\ ~CapFires) =>
      LET P == PollOnce(Cur, now, idle_secs) IN
        /\ P.active # None
        /\ Val(P.active).last_poll_ts = now
        /\ \A d \in Deltas :
             Max(0, (now + d) - Val(P.active).last_poll_ts) = d

\* a session started earlier has been polled at the current time and goes on
C29_Witness ==
  /\ active # None
  /\ ~OpenedBySplit
  /\ Val(active).start_ts < now
  /\ Val(active).last_poll_ts = now
  /\ \A i \in AutoEntries : time_entries[i].sid # Val(active).sid

----------------------------------------------------------------------------
(* C30 -- activity_ping with an active session leaves the active session with  *)
(* last_activity_ts = now; when it does not auto-resume (the session stays the *)
(* same one) it leaves start_ts, last_poll_ts, mode_label and project_id as    *)
(* they were and writes no entry.                                              *)

C30_PingStampsActivity ==
  active # None =>
    LET P == ActivityPing(Cur, now)
        sess == Val(active)
    IN /\ P.active # None
       /\ Val(P.active).last_activity_ts = now
       /\ Val(P.active).sid = sess.sid =>
            /\ Val(P.active).start_ts = sess.start_ts
            /\ Val(P.active).last_poll_ts = sess.last_poll_ts
            /\ Val(P.active).mode_label = sess.mode_label
            /\ Val(P.active).project_id = sess.project_id
            /\ P.time_entries = time_entries
            /\ P.modes = modes
       /\ Val(P.active).sid # sess.sid =>
            /\ Lower(sess.mode_label) = IdleLower
            /\ resume_mode_label # None
            /\ resume_active_start_ts # None
            /\ now - Val(resume_active_start_ts) >= 15

\* a session started and last polled earlier has just been pinged
C30_Witness ==
  /\ active # None
  /\ Val(active).pinged
  /\ Val(active).last_activity_ts = now
  /\ Val(active).last_poll_ts < now
  /\ Val(active).start_ts < Val(active).last_poll_ts

----------------------------------------------------------------------------
(* C31 -- every step that opens a session (start, switch, the 'Idle' start of  *)
(* the auto split, the switch of the auto resume) registers the trimmed label  *)
(* of that session exactly once: a label not yet known ignoring case becomes a *)
(* new mode with usage count 1, a known one has its usage count raised by 1    *)
(* and no second mode is created; no other step touches the modes.             *)

C31_ModeRegisteredOnce ==
  [][ LET opened == next_sid' # next_sid
          lower == Lower(Val(active').mode_label)
          known == {m \in modes : m.label_lower = lower}
      IN /\ ~opened => modes' = modes
         /\ opened =>
              /\ active' # None
              /\ Val(active').mode_label = Strip(Val(active').mode_label)
              /\ IF known = {}
                   THEN modes' = modes \cup
                          {[label |-> Val(active').mode_label, label_lower |-> lower,
                            usage_count |-> 1]}
                   ELSE /\ Cardinality(modes') = Cardinality(modes)
                        /\ \A m \in modes :
                             IF m \in known
                               THEN [m EXCEPT !.usage_count = m.usage_count + 1] \in modes'
                               ELSE m \in modes'
              /\ \A m1, m2 \in modes' : m1.label_lower = m2.label_lower => m1 = m2
    ]_vars

\* the 'Idle' start of an auto split has been counted on the mode that a manual
\* start registered as 'IDLE'
C31_Witness ==
  /\ OpenedBySplit
  /\ Val(active).mode_label = IdleLabel
  /\ \E m \in modes :
       /\ m.label = <<"I", "D", "L", "E">>
       /\ m.usage_count >= 2
  /\ Cardinality({m \in modes : m.label_lower = IdleLower}) = 1

----------------------------------------------------------------------------
(* C32 -- resume_mode_label is never the idle sentinel, and a resume is        *)
(* pending only while the active session is a session of the idle sentinel:    *)
(* with no session active, or with a session of another mode, both             *)
(* resume_mode_label and resume_active_start_ts are unset.                     *)

C32_ResumeOnlyWhileIdle ==
  /\ resume_mode_label # None => Lower(Val(resume_mode_label)) # IdleLower
  /\ (active = None \/ Lower(Val(active).mode_label) # IdleLower) =>
       /\ resume_mode_label = None
       /\ resume_active_start_ts = None

----------------------------------------------------------------------------
(* C33 -- with a clock that never goes back, the active session has            *)
(* start_ts <= last_poll_ts <= now and last_activity_ts <= now, and every row  *)
(* written by the Tracker has start_ts <= end_ts <= the time it was written.   *)

C33_TimestampsOrdered ==
  /\ active # None =>
       /\ Val(active).start_ts <= Val(active).last_poll_ts
       /\ Val(active).last_poll_ts <= now
       /\ Val(active).last_activity_ts <= now
  /\ \A i \in AutoEntries :
       /\ time_entries[i].start_ts <= time_entries[i].end_ts
       /\ time_entries[i].end_ts <= time_entries[i].written_at

----------------------------------------------------------------------------
(* C34 -- the manual_seconds given to a start or switch are persisted at most  *)
(* once: for every session, the manual_seconds of all the rows written for it  *)
(* add up to at most the value its start was given, through however many code  *)
(* paths the session was closed; so the sum over all rows written by the       *)
(* Tracker never exceeds the sum of the values given.                          *)

\* manual_seconds summed over the rows among the first n that the Tracker wrote
\* for the session sid
RECURSIVE ManualOf(_, _)
ManualOf(n, sid) ==
  IF n = 0 THEN 0
  ELSE ManualOf(n - 1, sid)
       + (IF time_entries[n].source = "auto" /\ time_entries[n].sid = sid
            THEN time_entries[n].manual_seconds ELSE 0)

C34_CreditPersistedOnce ==
  \A i \in AutoEntries :
    /\ time_entries[i].manual_seconds >= 0
    /\ ManualOf(Len(time_entries), time_entries[i].sid)
         <= time_entries[i].given_manual_seconds

\* a session given a credit has been written twice, with the credit on the first
\* row only
C34_Witness ==
  \E i, j \in AutoEntries :
    /\ i < j
    /\ time_entries[i].sid = time_entries[j].sid
    /\ time_entries[i].manual_seconds = 60
    /\ time_entries[j].manual_seconds = 0

----------------------------------------------------------------------------
(* C35 -- the sessions the Tracker opens by itself have no project, no manual  *)
(* credit and a fixed description: a poll that replaces the session (auto      *)
(* split) opens one with project_id none, manual_seconds 0 and description     *)
(* '(auto after resume)', an activity_ping that replaces it (auto resume) one  *)
(* with project_id none, manual_seconds 0 and description '(auto resume)',     *)
(* whatever the project of the session before.                                 *)

\* the session after the step was opened without project and credit, described by d
OpenedInternally(d) ==
  /\ Val(active').project_id = None
  /\ Val(active').given_manual_seconds = 0
  /\ Val(active').given_description = Some(d)
  /\ active_manual_seconds' = 0
  /\ active_description' = Some(d)

C35_InternalSessions ==
  [][ SessionReplaced =>
        /\ OpenedInternally("(auto after resume)") \/ ~Poll
        /\ OpenedInternally("(auto resume)") \/ ~Ping
    ]_vars

\* a session with a project has been split: the idle session that follows it has none
C35_Witness ==
  /\ OpenedBySplit
  /\ Val(active).project_id = None
  /\ Val(active).given_manual_seconds = 0
  /\ \E i \in AutoEntries :
       /\ time_entries[i].sid = Val(active).sid - 1
       /\ time_entries[i].project_id = Some(1)
       /\ time_entries[i].manual_seconds = 60

====
